---- MODULE Spec2Model ----
(***************************************************************************)
(* Two VideoCall components (src/webrtc.jsx), one per peer, joined by the  *)
(* signaling socket.  Every handler of the component is an action; every   *)
(* `await` is a suspension point: the suspended async function is a task   *)
(* record that a later Resolve action continues.                           *)
(***************************************************************************)
EXTENDS Naturals, Sequences, FiniteSets

\* ------------------------------------------------------------ bounds
MaxEngines == 4      \* RTCPeerConnection objects one peer may construct
MaxStreams == 3      \* getUserMedia/getDisplayMedia calls one peer may make
MaxEmit    == 2      \* socket.emit calls per peer and message type
MaxCand    == 1      \* ICE candidates one engine gathers
MaxOps     == 3
MaxReconnectOps == 4
MaxShareOps == 5      \* user clicks and device/engine events in one run
MaxFailureOps == 3    \* clicks, transport failures and rejected calls in one run
MaxHandshakeOps == 3  \* one Start Call click and the candidates of two engines

Peers == {1, 2}
Null  == 0

MsgTypes == {"offer", "answer", "ice-candidate", "reconnect-offer",
             "reconnect-answer", "call-ended"}

VARIABLES
  pcRef,            \* pcRef.current: Null or the index of an engine
  localStreamRef,   \* localStreamRef.current: Null or the index of a stream
  localVideoSrc,    \* localVideoRef.current.srcObject
  engines,          \* every RTCPeerConnection the peer has constructed
  streams,          \* every MediaStream the capture devices have returned
  tasks,            \* suspended async functions, in the order of their pending call
  net,              \* messages in flight to the peer's socket, in order
  emitted,          \* number of socket.emit calls, per message type
  gumCalls,         \* number of navigator.mediaDevices.getUserMedia calls
  ended,            \* endCall or a remote call-ended has run since the last startCall
  firstOffer,       \* what the peer did first: "sent" an offer, "received" one, or "none"
  budget            \* external stimuli (clicks, device and engine events) still allowed

vars == <<pcRef, localStreamRef, localVideoSrc, engines, streams, tasks, net,
          emitted, gumCalls, ended, firstOffer, budget>>

Other(p) == 3 - p

\* ------------------------------------------------------------ helpers
\* s with its i-th element removed.
RemoveAt(s, i) == [k \in 1..(Len(s) - 1) |-> IF k < i THEN s[k] ELSE s[k + 1]]

\* Calls to the capture devices that have not resolved yet.
PendingDevice(p) ==
  Cardinality({i \in 1..Len(tasks[p]) : tasks[p][i].at \in {"gum", "gdm"}})

\* Room for one more capture-device call / one more engine / one more emit.
DeviceRoom(p) == Len(streams[p]) + PendingDevice(p) < MaxStreams
EngineRoom(p) == Len(engines[p]) < MaxEngines
EmitRoom(p, type) == emitted[p][type] < MaxEmit
OpsRoom == budget > 0

\* new RTCPeerConnection(...) with the tracks of localStreamRef.current added:
\* pc.addTrack once per track of the stream (one video and one audio track of
\* getUserMedia({video, audio})), so one sender of each kind, or none at all.
\* nVideo/nAudio count the senders of each kind, video/audio name the stream
\* whose track the sender carries.
NewEngine(ls, origin) ==
  [origin |-> origin, closed |-> FALSE, sig |-> "stable", local |-> FALSE,
   remote |-> Null, video |-> ls, audio |-> ls,
   nVideo |-> IF ls = Null THEN 0 ELSE 1, nAudio |-> IF ls = Null THEN 0 ELSE 1,
   conn |-> "new", gathered |-> 0, cands |-> 0]

\* createPeerConnection: the new engine list (pcRef.current becomes its last index).
createPeerConnection(es, ls, origin) == Append(es, NewEngine(ls, origin))

\* pc.close() on engine e of the list (pcRef.current?.close(): nothing for Null).
CloseEngine(es, e) ==
  IF e = Null THEN es
  ELSE [es EXCEPT ![e].closed = TRUE, ![e].conn = "closed"]

\* A MediaStream from getUserMedia({video, audio}) or getDisplayMedia({video}).
CameraStream ==
  [source |-> "camera", vLive |-> TRUE, aLive |-> TRUE,
   vEnabled |-> TRUE, aEnabled |-> TRUE]
ScreenStream ==
  [source |-> "screen", vLive |-> TRUE, aLive |-> FALSE,
   vEnabled |-> TRUE, aEnabled |-> FALSE]

Task(fn, at, pc, from) == [fn |-> fn, at |-> at, pc |-> pc, from |-> from]

\* The engine's operations chain: a pending operation runs after the operations
\* called earlier on the same engine.
ChainHead(p, i) ==
  \A j \in 1..(i - 1) :
     tasks[p][j].pc # tasks[p][i].pc \/ tasks[p][j].at \in {"gum", "gdm"}

\* socket.emit(type, payload): the server relays it to the other peer.
EmitMsg(p, type, e) ==
  /\ EmitRoom(p, type)
  /\ net' = [net EXCEPT ![Other(p)] = Append(@, [type |-> type, e |-> e])]
  /\ emitted' = [emitted EXCEPT ![p][type] = @ + 1]

\* ------------------------------------------------------------ initial state
Mounted(ops) ==
  /\ pcRef = [p \in Peers |-> Null]
  /\ localStreamRef = [p \in Peers |-> Null]
  /\ localVideoSrc = [p \in Peers |-> Null]
  /\ engines = [p \in Peers |-> <<>>]
  /\ streams = [p \in Peers |-> <<>>]
  /\ tasks = [p \in Peers |-> <<>>]
  /\ net = [p \in Peers |-> <<>>]
  /\ emitted = [p \in Peers |-> [t \in MsgTypes |-> 0]]
  /\ gumCalls = [p \in Peers |-> 0]
  /\ ended = [p \in Peers |-> FALSE]
  /\ firstOffer = [p \in Peers |-> "none"]
  /\ budget = ops

Init == Mounted(MaxOps)

\* ------------------------------------------------------------ startCamera
\* `await startCamera()` called by fn (startCall or the offer handler), up to the
\* first real suspension: with a stream held it returns at once and the caller
\* goes on to createPeerConnection and its first engine call (`firstAt`);
\* otherwise getUserMedia is called and the caller waits for it.
StartCameraThen(p, fn, firstAt, from) ==
  IF localStreamRef[p] # Null
  THEN /\ EngineRoom(p)
       /\ engines' = [engines EXCEPT
                        ![p] = createPeerConnection(@, localStreamRef[p], fn)]
       /\ pcRef' = [pcRef EXCEPT ![p] = Len(engines[p]) + 1]
       /\ tasks' = [tasks EXCEPT
                      ![p] = Append(@, Task(fn, firstAt, Len(engines[p]) + 1, from))]
       /\ UNCHANGED gumCalls
  ELSE /\ DeviceRoom(p)
       /\ gumCalls' = [gumCalls EXCEPT ![p] = @ + 1]
       /\ tasks' = [tasks EXCEPT ![p] = Append(@, Task(fn, "gum", Null, from))]
       /\ UNCHANGED <<engines, pcRef>>

\* ------------------------------------------------------------ user operations
\* <button onClick={startCall}>
startCall(p) ==
  /\ OpsRoom
  /\ budget' = budget - 1
  /\ StartCameraThen(p, "startCall", "createOffer", Null)
  /\ ended' = [ended EXCEPT ![p] = FALSE]
  /\ UNCHANGED <<localStreamRef, localVideoSrc, streams, net, emitted, firstOffer>>

\* A toggleAudio that would also take the audio track off the engine's sender.
toggleAudio_Detach(p) ==
  /\ OpsRoom
  /\ budget' = budget - 1
  /\ streams' = IF localStreamRef[p] # Null
                THEN [streams EXCEPT ![p][localStreamRef[p]].aEnabled = ~@]
                ELSE streams
  /\ engines' = IF pcRef[p] # Null
                THEN [engines EXCEPT ![p][pcRef[p]].audio = Null]
                ELSE engines
  /\ UNCHANGED <<pcRef, localStreamRef, localVideoSrc, tasks, net,
                 emitted, gumCalls, ended, firstOffer>>

\* <button onClick={toggleAudio}>: flips `enabled` of the held stream's audio track.
toggleAudio(p) ==
  /\ OpsRoom
  /\ budget' = budget - 1
  /\ streams' = IF localStreamRef[p] # Null
                THEN [streams EXCEPT ![p][localStreamRef[p]].aEnabled = ~@]
                ELSE streams
  /\ UNCHANGED <<pcRef, localStreamRef, localVideoSrc, engines, tasks, net,
                 emitted, gumCalls, ended, firstOffer>>

\* <button onClick={toggleVideo}>
toggleVideo(p) ==
  /\ OpsRoom
  /\ budget' = budget - 1
  /\ streams' = IF localStreamRef[p] # Null
                THEN [streams EXCEPT ![p][localStreamRef[p]].vEnabled = ~@]
                ELSE streams
  /\ UNCHANGED <<pcRef, localStreamRef, localVideoSrc, engines, tasks, net,
                 emitted, gumCalls, ended, firstOffer>>

\* <button onClick={startScreenShare}>: getDisplayMedia is called and awaited.
startScreenShare(p) ==
  /\ OpsRoom
  /\ DeviceRoom(p)
  /\ budget' = budget - 1
  /\ tasks' = [tasks EXCEPT ![p] = Append(@, Task("startScreenShare", "gdm", Null, Null))]
  /\ UNCHANGED <<pcRef, localStreamRef, localVideoSrc, engines, streams, net,
                 emitted, gumCalls, ended, firstOffer>>

\* A track replacement that would add the track to the engine (pc.addTrack)
\* next to the one already sent.
ReplaceVideo_AddTrack(p, s) ==
  IF pcRef[p] # Null
  THEN [engines EXCEPT ![p][pcRef[p]].video = s, ![p][pcRef[p]].nVideo = @ + 1]
  ELSE engines

\* sender?.replaceTrack(track of stream s): the sender of pcRef.current whose
\* track is a video track, when there is one.
ReplaceVideo(p, s) ==
  IF pcRef[p] # Null /\ engines[p][pcRef[p]].video # Null
  THEN [engines EXCEPT ![p][pcRef[p]].video = s]
  ELSE engines

\* getDisplayMedia resolves: the rest of startScreenShare.
GdmResolve(p, i) ==
  /\ tasks[p][i].at = "gdm"
  /\ streams' = [streams EXCEPT ![p] = Append(@, ScreenStream)]
  /\ engines' = ReplaceVideo(p, Len(streams[p]) + 1)
  /\ localVideoSrc' = [localVideoSrc EXCEPT ![p] = Len(streams[p]) + 1]
  /\ tasks' = [tasks EXCEPT ![p] = RemoveAt(@, i)]
  /\ UNCHANGED <<pcRef, localStreamRef, net, emitted, gumCalls, ended, firstOffer, budget>>

\* The browser ends the screen track s (the user stops sharing): screenTrack.onended
\* runs stopScreenShare, which calls getUserMedia and awaits it.
ScreenEnded(p, s) ==
  /\ OpsRoom
  /\ DeviceRoom(p)
  /\ streams[p][s].source = "screen"
  /\ streams[p][s].vLive
  /\ budget' = budget - 1
  /\ streams' = [streams EXCEPT ![p][s].vLive = FALSE]
  /\ gumCalls' = [gumCalls EXCEPT ![p] = @ + 1]
  /\ tasks' = [tasks EXCEPT ![p] = Append(@, Task("stopScreenShare", "gum", Null, s))]
  /\ UNCHANGED <<pcRef, localStreamRef, localVideoSrc, engines, net, emitted, ended, firstOffer>>

\* t.stop() for every track of stream s (localStreamRef.current?.getTracks()).
StopTracks(ss, s) ==
  IF s = Null THEN ss
  ELSE [ss EXCEPT ![s].vLive = FALSE, ![s].aLive = FALSE]

\* <button onClick={endCall}>
endCall(p) ==
  /\ OpsRoom
  /\ budget' = budget - 1
  /\ streams' = [streams EXCEPT ![p] = StopTracks(@, localStreamRef[p])]
  /\ engines' = [engines EXCEPT ![p] = CloseEngine(@, pcRef[p])]
  /\ pcRef' = [pcRef EXCEPT ![p] = Null]
  /\ localStreamRef' = [localStreamRef EXCEPT ![p] = Null]
  /\ localVideoSrc' = [localVideoSrc EXCEPT ![p] = Null]
  /\ EmitMsg(p, "call-ended", Null)
  /\ ended' = [ended EXCEPT ![p] = TRUE]
  /\ UNCHANGED <<tasks, gumCalls, firstOffer>>

\* ------------------------------------------------------------ resumed awaits
\* getUserMedia resolves with a new camera stream s.  In startCamera (called by
\* startCall or by the offer handler) the stream becomes localStreamRef.current
\* and the caller goes on to createPeerConnection and its first engine call; in
\* stopScreenShare the video sender is redirected and the stream is kept.
GumResolve(p, i) ==
  LET t == tasks[p][i]
      s == Len(streams[p]) + 1
      e == Len(engines[p]) + 1
  IN
  /\ t.at = "gum"
  /\ streams' = [streams EXCEPT ![p] = Append(@, CameraStream)]
  /\ localStreamRef' = [localStreamRef EXCEPT ![p] = s]
  /\ localVideoSrc' = [localVideoSrc EXCEPT ![p] = s]
  /\ IF t.fn = "stopScreenShare"
     THEN /\ engines' = ReplaceVideo(p, s)
          /\ tasks' = [tasks EXCEPT ![p] = RemoveAt(@, i)]
          /\ UNCHANGED pcRef
     ELSE /\ EngineRoom(p)
          /\ engines' = [engines EXCEPT ![p] = createPeerConnection(@, s, t.fn)]
          /\ pcRef' = [pcRef EXCEPT ![p] = e]
          /\ tasks' = [tasks EXCEPT ![p] =
                Append(RemoveAt(@, i),
                       Task(t.fn, IF t.fn = "startCall" THEN "createOffer" ELSE "setRemote",
                            e, t.from))]
  /\ UNCHANGED <<net, emitted, gumCalls, ended, firstOffer, budget>>

\* The awaited engine call of task i settles.  On a closed engine the call
\* rejects (InvalidStateError) or never settles: the function goes no further.
Dropped(p, i) == tasks' = [tasks EXCEPT ![p] = RemoveAt(@, i)]
Advance(p, i, at) ==
  tasks' = [tasks EXCEPT ![p] = Append(RemoveAt(@, i), [tasks[p][i] EXCEPT !.at = at])]

\* getUserMedia / getDisplayMedia rejects (permission denied, no device): the
\* awaiting function throws and, with no try/catch anywhere, goes no further.
DeviceRejects(p, i) ==
  /\ tasks[p][i].at \in {"gum", "gdm"}
  /\ OpsRoom
  /\ budget' = budget - 1
  /\ Dropped(p, i)
  /\ UNCHANGED <<pcRef, localStreamRef, localVideoSrc, engines, streams, net,
                 emitted, gumCalls, ended, firstOffer>>

\* The awaited createOffer / createAnswer / setLocalDescription /
\* setRemoteDescription of task i rejects on an open engine (OperationError,
\* a description the engine cannot apply): the function throws and goes no further.
EngineCallRejects(p, i) ==
  /\ tasks[p][i].at \in {"createOffer", "createAnswer", "setLocal", "setRemote"}
  /\ ChainHead(p, i)
  /\ ~engines[p][tasks[p][i].pc].closed
  /\ OpsRoom
  /\ budget' = budget - 1
  /\ Dropped(p, i)
  /\ UNCHANGED <<pcRef, localStreamRef, localVideoSrc, engines, streams, net,
                 emitted, gumCalls, ended, firstOffer>>

\* pc.createOffer() resolves (startCall, reconnectCall): setLocalDescription is called.
CreateOfferResolve(p, i) ==
  LET t == tasks[p][i] IN
  /\ t.at = "createOffer"
  /\ ChainHead(p, i)
  /\ IF engines[p][t.pc].closed THEN Dropped(p, i) ELSE Advance(p, i, "setLocal")
  /\ UNCHANGED <<pcRef, localStreamRef, localVideoSrc, engines, streams, net,
                 emitted, gumCalls, ended, firstOffer, budget>>

\* pc.createAnswer() resolves (offer / reconnect-offer handler).
CreateAnswerResolve(p, i) ==
  LET t == tasks[p][i] IN
  /\ t.at = "createAnswer"
  /\ ChainHead(p, i)
  /\ IF engines[p][t.pc].closed \/ engines[p][t.pc].remote = Null
     THEN Dropped(p, i)
     ELSE Advance(p, i, "setLocal")
  /\ UNCHANGED <<pcRef, localStreamRef, localVideoSrc, engines, streams, net,
                 emitted, gumCalls, ended, firstOffer, budget>>

\* The message the function emits once its local description is set.
EmitOf(fn) ==
  CASE fn = "startCall" -> "offer"
    [] fn = "reconnectCall" -> "reconnect-offer"
    [] fn = "offer" -> "answer"
    [] OTHER -> "reconnect-answer"

\* pc.setLocalDescription(desc) resolves, then socket.emit(...).  An offer is
\* accepted in stable, an answer in have-remote-offer.
SetLocalResolve(p, i) ==
  LET t == tasks[p][i]
      en == engines[p][t.pc]
      isOffer == t.fn \in {"startCall", "reconnectCall"}
      accepted == /\ ~en.closed
                  /\ IF isOffer THEN en.sig \in {"stable", "have-local-offer"}
                                ELSE en.sig = "have-remote-offer"
  IN
  /\ t.at = "setLocal"
  /\ ChainHead(p, i)
  /\ Dropped(p, i)
  /\ IF accepted
     THEN /\ engines' = [engines EXCEPT
                ![p][t.pc].sig = IF isOffer THEN "have-local-offer" ELSE "stable",
                ![p][t.pc].local = TRUE]
          /\ EmitMsg(p, EmitOf(t.fn), t.pc)
     ELSE UNCHANGED <<engines, net, emitted>>
  /\ firstOffer' = IF accepted /\ t.fn = "startCall" /\ firstOffer[p] = "none"
                   THEN [firstOffer EXCEPT ![p] = "sent"]
                   ELSE firstOffer
  /\ UNCHANGED <<pcRef, localStreamRef, localVideoSrc, streams, gumCalls, ended, budget>>

\* pc.setRemoteDescription(desc) resolves.  In the offer / reconnect-offer handler
\* desc is the remote offer and createAnswer is called next; in the answer /
\* reconnect-answer handler desc is the remote answer, accepted in have-local-offer,
\* and the handler is over.
SetRemoteResolve(p, i) ==
  LET t == tasks[p][i]
      en == engines[p][t.pc]
      isAnswer == t.fn \in {"answer", "reconnect-answer"}
      accepted == /\ ~en.closed
                  /\ IF isAnswer THEN en.sig = "have-local-offer"
                                 ELSE en.sig \in {"stable", "have-remote-offer"}
  IN
  /\ t.at = "setRemote"
  /\ ChainHead(p, i)
  /\ engines' = IF accepted
                THEN [engines EXCEPT
                        ![p][t.pc].sig = IF isAnswer THEN "stable" ELSE "have-remote-offer",
                        ![p][t.pc].remote = t.from]
                ELSE engines
  /\ IF accepted /\ ~isAnswer THEN Advance(p, i, "createAnswer") ELSE Dropped(p, i)
  /\ UNCHANGED <<pcRef, localStreamRef, localVideoSrc, streams, net, emitted,
                 gumCalls, ended, firstOffer, budget>>

\* pc.addIceCandidate(candidate) settles: added when a remote description is set.
AddIceResolve(p, i) ==
  LET t == tasks[p][i]
      en == engines[p][t.pc]
  IN
  /\ t.at = "addIce"
  /\ ChainHead(p, i)
  /\ engines' = IF ~en.closed /\ en.remote # Null
                THEN [engines EXCEPT ![p][t.pc].cands = @ + 1]
                ELSE engines
  /\ Dropped(p, i)
  /\ UNCHANGED <<pcRef, localStreamRef, localVideoSrc, streams, net, emitted,
                 gumCalls, ended, firstOffer, budget>>

\* ------------------------------------------------------------ socket handlers
Head1(p, type) == net[p] # <<>> /\ Head(net[p]).type = type
Pop(p) == net' = [net EXCEPT ![p] = Tail(@)]

\* socket.on("offer")
onOffer(p) ==
  /\ Head1(p, "offer")
  /\ Pop(p)
  /\ StartCameraThen(p, "offer", "setRemote", Head(net[p]).e)
  /\ firstOffer' = IF firstOffer[p] = "none"
                   THEN [firstOffer EXCEPT ![p] = "received"]
                   ELSE firstOffer
  /\ UNCHANGED <<localStreamRef, localVideoSrc, streams, emitted, ended, budget>>

\* pcRef.current?.setRemoteDescription(answer), called by the handler of `type`.
setRemoteOnCurrent(p, type) ==
  tasks' = IF pcRef[p] = Null THEN tasks
           ELSE [tasks EXCEPT
                   ![p] = Append(@, Task(type, "setRemote", pcRef[p], Head(net[p]).e))]

\* An answer handler that would drop the answer.
onAnswer_Discard(p) ==
  /\ Head1(p, "answer")
  /\ Pop(p)
  /\ UNCHANGED <<pcRef, localStreamRef, localVideoSrc, engines, streams, tasks, emitted,
                 gumCalls, ended, firstOffer, budget>>

\* socket.on("answer")
onAnswer(p) ==
  /\ Head1(p, "answer")
  /\ Pop(p)
  /\ setRemoteOnCurrent(p, "answer")
  /\ UNCHANGED <<pcRef, localStreamRef, localVideoSrc, engines, streams, emitted,
                 gumCalls, ended, firstOffer, budget>>

\* socket.on("reconnect-answer")
onReconnectAnswer(p) ==
  /\ Head1(p, "reconnect-answer")
  /\ Pop(p)
  /\ setRemoteOnCurrent(p, "reconnect-answer")
  /\ UNCHANGED <<pcRef, localStreamRef, localVideoSrc, engines, streams, emitted,
                 gumCalls, ended, firstOffer, budget>>

\* socket.on("ice-candidate")
onIceCandidate(p) ==
  /\ Head1(p, "ice-candidate")
  /\ Pop(p)
  /\ tasks' = IF pcRef[p] = Null THEN tasks
              ELSE [tasks EXCEPT
                      ![p] = Append(@, Task("ice-candidate", "addIce", pcRef[p],
                                            Head(net[p]).e))]
  /\ UNCHANGED <<pcRef, localStreamRef, localVideoSrc, engines, streams, emitted,
                 gumCalls, ended, firstOffer, budget>>

\* socket.on("reconnect-offer")
onReconnectOffer(p) ==
  /\ Head1(p, "reconnect-offer")
  /\ Pop(p)
  /\ EngineRoom(p)
  /\ engines' = [engines EXCEPT
        ![p] = createPeerConnection(CloseEngine(@, pcRef[p]), localStreamRef[p],
                                    "reconnect-offer")]
  /\ pcRef' = [pcRef EXCEPT ![p] = Len(engines[p]) + 1]
  /\ tasks' = [tasks EXCEPT
        ![p] = Append(@, Task("reconnect-offer", "setRemote", Len(engines[p]) + 1,
                              Head(net[p]).e))]
  /\ UNCHANGED <<localStreamRef, localVideoSrc, streams, emitted, gumCalls, ended, firstOffer, budget>>

\* A call-ended handler that would answer with a call-ended of its own.
onCallEnded_Echo(p) ==
  /\ Head1(p, "call-ended")
  /\ EmitRoom(p, "call-ended")
  /\ net' = [net EXCEPT ![p] = Tail(@),
                        ![Other(p)] = Append(@, [type |-> "call-ended", e |-> Null])]
  /\ emitted' = [emitted EXCEPT ![p]["call-ended"] = @ + 1]
  /\ engines' = [engines EXCEPT ![p] = CloseEngine(@, pcRef[p])]
  /\ pcRef' = [pcRef EXCEPT ![p] = Null]
  /\ ended' = [ended EXCEPT ![p] = TRUE]
  /\ UNCHANGED <<localStreamRef, localVideoSrc, streams, tasks, gumCalls,
                 firstOffer, budget>>

\* socket.on("call-ended")
onCallEnded(p) ==
  /\ Head1(p, "call-ended")
  /\ Pop(p)
  /\ engines' = [engines EXCEPT ![p] = CloseEngine(@, pcRef[p])]
  /\ pcRef' = [pcRef EXCEPT ![p] = Null]
  /\ ended' = [ended EXCEPT ![p] = TRUE]
  /\ UNCHANGED <<localStreamRef, localVideoSrc, streams, tasks, emitted, gumCalls,
                 firstOffer, budget>>

\* ------------------------------------------------------------ engine events
\* Engine e of p and the engine whose description it holds hold each other's
\* descriptions and are both open: the transport between them can come up.
Paired(p, e) ==
  LET en == engines[p][e]
      q == Other(p)
  IN /\ ~en.closed /\ en.local /\ en.remote # Null
     /\ en.remote <= Len(engines[q])
     /\ ~engines[q][en.remote].closed
     /\ engines[q][en.remote].local
     /\ engines[q][en.remote].remote = e

\* reconnectCall(), up to its first await, on the engine list es.
reconnectCall(p, es) ==
  IF localStreamRef[p] = Null
  THEN /\ engines' = [engines EXCEPT ![p] = es]
       /\ UNCHANGED <<pcRef, tasks>>
  ELSE /\ EngineRoom(p)
       /\ engines' = [engines EXCEPT
             ![p] = createPeerConnection(CloseEngine(es, pcRef[p]), localStreamRef[p],
                                         "reconnectCall")]
       /\ pcRef' = [pcRef EXCEPT ![p] = Len(engines[p]) + 1]
       /\ tasks' = [tasks EXCEPT
             ![p] = Append(@, Task("reconnectCall", "createOffer", Len(engines[p]) + 1, Null))]

\* pc.onconnectionstatechange with pc.connectionState = state.
onconnectionstatechange(p, e, state) ==
  /\ IF state \in {"disconnected", "failed"}
     THEN reconnectCall(p, [engines[p] EXCEPT ![e].conn = state])
     ELSE /\ engines' = [engines EXCEPT ![p][e].conn = state]
          /\ UNCHANGED <<pcRef, tasks>>
  /\ UNCHANGED <<localStreamRef, localVideoSrc, streams, net, emitted, gumCalls, ended, firstOffer>>

\* The transport of engine e comes up.
EngineConnected(p, e) ==
  /\ engines[p][e].conn \in {"new", "disconnected"}
  /\ Paired(p, e)
  /\ onconnectionstatechange(p, e, "connected")
  /\ UNCHANGED budget

\* The transport of a connected engine loses connectivity.
EngineDisconnected(p, e) ==
  /\ ~engines[p][e].closed
  /\ engines[p][e].conn = "connected"
  /\ OpsRoom
  /\ budget' = budget - 1
  /\ onconnectionstatechange(p, e, "disconnected")

\* The transport of an engine that holds both descriptions fails.
EngineFailed(p, e) ==
  /\ ~engines[p][e].closed
  /\ engines[p][e].local /\ engines[p][e].remote # Null
  /\ engines[p][e].conn \in {"new", "connected", "disconnected"}
  /\ OpsRoom
  /\ budget' = budget - 1
  /\ onconnectionstatechange(p, e, "failed")

\* pc.onicecandidate: engine e, its local description set, gathers a candidate.
onicecandidate(p, e) ==
  /\ OpsRoom
  /\ ~engines[p][e].closed
  /\ engines[p][e].local
  /\ engines[p][e].gathered < MaxCand
  /\ budget' = budget - 1
  /\ engines' = [engines EXCEPT ![p][e].gathered = @ + 1]
  /\ EmitMsg(p, "ice-candidate", e)
  /\ UNCHANGED <<pcRef, localStreamRef, localVideoSrc, streams, tasks, gumCalls, ended, firstOffer>>

\* ------------------------------------------------------------ specification
UserOp(p) ==
  \/ startCall(p)
  \/ endCall(p)
  \/ toggleAudio(p)
  \/ toggleVideo(p)
  \/ startScreenShare(p)

Resolve(p) ==
  \/ \E i \in 1..Len(tasks[p]) : GumResolve(p, i)
  \/ \E i \in 1..Len(tasks[p]) : GdmResolve(p, i)
  \/ \E i \in 1..Len(tasks[p]) : CreateOfferResolve(p, i)
  \/ \E i \in 1..Len(tasks[p]) : CreateAnswerResolve(p, i)
  \/ \E i \in 1..Len(tasks[p]) : SetLocalResolve(p, i)
  \/ \E i \in 1..Len(tasks[p]) : SetRemoteResolve(p, i)
  \/ \E i \in 1..Len(tasks[p]) : AddIceResolve(p, i)

Receive(p) ==
  \/ onOffer(p)
  \/ onAnswer(p)
  \/ onIceCandidate(p)
  \/ onReconnectOffer(p)
  \/ onReconnectAnswer(p)
  \/ onCallEnded(p)

EngineEvent(p) ==
  \/ \E e \in 1..Len(engines[p]) : EngineConnected(p, e)
  \/ \E e \in 1..Len(engines[p]) : EngineDisconnected(p, e)
  \/ \E e \in 1..Len(engines[p]) : EngineFailed(p, e)
  \/ \E e \in 1..Len(engines[p]) : onicecandidate(p, e)

DeviceEvent(p) ==
  \E s \in 1..Len(streams[p]) : ScreenEnded(p, s)

Next ==
  \E p \in Peers :
     \/ UserOp(p)
     \/ Resolve(p)
     \/ Receive(p)
     \/ EngineEvent(p)
     \/ DeviceEvent(p)

Spec == Init /\ [][Next]_vars

\* ------------------------------------------------------------ scenarios
\* A call with connectivity trouble: Start Call clicks of peer 1 and transport
\* events at both peers, the signalling they cause, and room for one more event.
InitReconnect == Mounted(MaxReconnectOps)

NextReconnect ==
  \E p \in Peers :
     \/ p = 1 /\ startCall(p)
     \/ \E i \in 1..Len(tasks[p]) : GumResolve(p, i)
     \/ \E i \in 1..Len(tasks[p]) : CreateOfferResolve(p, i)
     \/ \E i \in 1..Len(tasks[p]) : CreateAnswerResolve(p, i)
     \/ \E i \in 1..Len(tasks[p]) : SetLocalResolve(p, i)
     \/ \E i \in 1..Len(tasks[p]) : SetRemoteResolve(p, i)
     \/ onOffer(p)
     \/ onAnswer(p)
     \/ onReconnectOffer(p)
     \/ onReconnectAnswer(p)
     \/ \E e \in 1..Len(engines[p]) : EngineConnected(p, e)
     \/ \E e \in 1..Len(engines[p]) : EngineDisconnected(p, e)
     \/ \E e \in 1..Len(engines[p]) : EngineFailed(p, e)

SpecReconnect == InitReconnect /\ [][NextReconnect]_vars

\* One call set up and nothing else: a single Start Call click, by either peer,
\* then only what the click causes (the resumed awaits, the relayed messages,
\* the candidates the engines gather, the transport coming up).  The socket
\* delivers every message, every awaited call settles and the engines report
\* a transport that can come up: the steps the click causes are weakly fair.
InitHandshake == Mounted(MaxHandshakeOps)

HandshakeProgress ==
  \E p \in Peers :
     \/ \E i \in 1..Len(tasks[p]) : GumResolve(p, i)
     \/ \E i \in 1..Len(tasks[p]) : CreateOfferResolve(p, i)
     \/ \E i \in 1..Len(tasks[p]) : CreateAnswerResolve(p, i)
     \/ \E i \in 1..Len(tasks[p]) : SetLocalResolve(p, i)
     \/ \E i \in 1..Len(tasks[p]) : SetRemoteResolve(p, i)
     \/ \E i \in 1..Len(tasks[p]) : AddIceResolve(p, i)
     \/ onOffer(p)
     \/ onAnswer(p)
     \/ onIceCandidate(p)
     \/ \E e \in 1..Len(engines[p]) : EngineConnected(p, e)

NextHandshake ==
  \/ \E p \in Peers : budget = MaxHandshakeOps /\ startCall(p)
  \/ \E p \in Peers : \E e \in 1..Len(engines[p]) : onicecandidate(p, e)
  \/ HandshakeProgress

SpecHandshake ==
  InitHandshake /\ [][NextHandshake]_vars /\ WF_vars(HandshakeProgress)

\* Calls in which an awaited call may reject: Start Call clicks, transport
\* failures and rejections, and the signalling they cause.
InitFailure == Mounted(MaxFailureOps)

NextFailure ==
  \E p \in Peers :
     \/ startCall(p)
     \/ \E i \in 1..Len(tasks[p]) : GumResolve(p, i)
     \/ \E i \in 1..Len(tasks[p]) : CreateOfferResolve(p, i)
     \/ \E i \in 1..Len(tasks[p]) : CreateAnswerResolve(p, i)
     \/ \E i \in 1..Len(tasks[p]) : SetLocalResolve(p, i)
     \/ \E i \in 1..Len(tasks[p]) : SetRemoteResolve(p, i)
     \/ \E i \in 1..Len(tasks[p]) : DeviceRejects(p, i)
     \/ \E i \in 1..Len(tasks[p]) : EngineCallRejects(p, i)
     \/ onOffer(p)
     \/ onAnswer(p)
     \/ onReconnectOffer(p)
     \/ onReconnectAnswer(p)
     \/ \E e \in 1..Len(engines[p]) : EngineConnected(p, e)
     \/ \E e \in 1..Len(engines[p]) : EngineFailed(p, e)

SpecFailure == InitFailure /\ [][NextFailure]_vars

\* A call in which screens are shared: the first click is peer 1's Start Call,
\* then either peer shares its screen or hangs up, and the transport may fail.
InitShare == Mounted(MaxShareOps)

NextShare ==
  \E p \in Peers :
     \/ p = 1 /\ budget = MaxShareOps /\ startCall(p)
     \/ endCall(p)
     \/ startScreenShare(p)
     \/ \E s \in 1..Len(streams[p]) : ScreenEnded(p, s)
     \/ \E i \in 1..Len(tasks[p]) : GumResolve(p, i)
     \/ \E i \in 1..Len(tasks[p]) : GdmResolve(p, i)
     \/ \E i \in 1..Len(tasks[p]) : CreateOfferResolve(p, i)
     \/ \E i \in 1..Len(tasks[p]) : CreateAnswerResolve(p, i)
     \/ \E i \in 1..Len(tasks[p]) : SetLocalResolve(p, i)
     \/ \E i \in 1..Len(tasks[p]) : SetRemoteResolve(p, i)
     \/ onOffer(p)
     \/ onAnswer(p)
     \/ onReconnectOffer(p)
     \/ onReconnectAnswer(p)
     \/ onCallEnded(p)
     \/ \E e \in 1..Len(engines[p]) : EngineFailed(p, e)

SpecShare == InitShare /\ [][NextShare]_vars

\* ------------------------------------------------------------ observations
LiveEngines(p) == {e \in 1..Len(engines[p]) : ~engines[p][e].closed}
TotalEmitted(type) == emitted[1][type] + emitted[2][type]
Quiescent == \A p \in Peers : tasks[p] = <<>> /\ net[p] = <<>>

\* ------------------------------------------------------------ C1
\* C1: the session never has more than one live (created and not yet closed)
\* engine: whenever a new engine is created the previous one is already closed.
C1_AtMostOneLiveEngine ==
  \A p \in Peers : Cardinality(LiveEngines(p)) <= 1

\* ------------------------------------------------------------ C7
\* Only startCall has asked for the camera: no endCall, no offer handler and no
\* stopScreenShare has run at p.
OnlyStartCalls(p) ==
  /\ emitted[p]["call-ended"] = 0
  /\ \A e \in 1..Len(engines[p]) : engines[p][e].origin # "offer"
  /\ \A i \in 1..Len(tasks[p]) : tasks[p][i].fn \notin {"offer", "stopScreenShare"}
  /\ \A s \in 1..Len(streams[p]) : streams[p][s].source = "screen" => streams[p][s].vLive

\* C7: startCall called any number of times without an intervening endCall, also
\* while an earlier call still awaits the camera, asks the capture device at
\* most once.
C7_CameraAcquiredOnce ==
  \A p \in Peers : OnlyStartCalls(p) => gumCalls[p] <= 1

\* ------------------------------------------------------------ C4
\* Both peers emitted their offer before handling the other's, and the two
\* Start Call clicks are all that has happened.
Glare ==
  /\ \A p \in Peers : firstOffer[p] = "sent"
  /\ budget = MaxOps - 2

\* The role of p's current engine.
IsCaller(p) == pcRef[p] # Null /\ engines[p][pcRef[p]].origin = "startCall"
IsAnswerer(p) == pcRef[p] # Null /\ engines[p][pcRef[p]].origin = "offer"

\* The current engine of p is open and holds the descriptions of an open engine
\* of the other peer that holds its own: the session can be Connected.
CanConnect(p) == pcRef[p] # Null /\ Paired(p, pcRef[p])

\* C4: after glare at most one answer is ever emitted, and once every handler
\* has run and every message is delivered exactly one answer was emitted, one
\* peer is caller, the other answerer, and both sessions can be Connected.
C4_GlareResolved ==
  Glare =>
    /\ TotalEmitted("answer") <= 1
    /\ Quiescent =>
         /\ TotalEmitted("answer") = 1
         /\ \E p \in Peers : IsCaller(p) /\ IsAnswerer(Other(p))
         /\ \A p \in Peers : CanConnect(p)

\* ------------------------------------------------------------ C5
\* p handles an inbound signaling message other than call-ended.
HandlesSignal(p) ==
  \/ onOffer(p) \/ onAnswer(p) \/ onIceCandidate(p)
  \/ onReconnectOffer(p) \/ onReconnectAnswer(p)

\* A disconnected/failed event of one of p's engines is delivered.
DegradedEvent(p) ==
  \E e \in 1..Len(engines[p]) : EngineDisconnected(p, e) \/ EngineFailed(p, e)

\* The step creates no engine at p, asks for no media and emits nothing.
Inert(p) ==
  /\ Len(engines'[p]) = Len(engines[p])
  /\ gumCalls'[p] = gumCalls[p]
  /\ emitted'[p] = emitted[p]
  /\ net'[Other(p)] = net[Other(p)]

\* C5: once Ended the session stays Ended: handling a later inbound signaling
\* message or a disconnected/failed event creates no engine, acquires no media
\* and emits no message.
C5_EndedStaysEnded ==
  [][\A p \in Peers :
        (ended[p] /\ (HandlesSignal(p) \/ DegradedEvent(p))) => Inert(p)]_vars

\* ------------------------------------------------------------ C6
\* Every track of every stream p acquired is stopped.
AllTracksStopped(p) ==
  \A s \in 1..Len(streams[p]) : ~streams[p][s].vLive /\ ~streams[p][s].aLive

\* C6: endCall in any state leaves no live engine, every acquired track
\* stopped, the per-call references cleared and a call-ended message emitted.
C6_EndCallReleasesAll ==
  [][\A p \in Peers :
        endCall(p) =>
          /\ LiveEngines(p)' = {}
          /\ AllTracksStopped(p)'
          /\ pcRef'[p] = Null /\ localStreamRef'[p] = Null /\ localVideoSrc'[p] = Null
          /\ net'[Other(p)] # <<>>
          /\ net'[Other(p)][Len(net'[Other(p)])].type = "call-ended"]_vars

\* ------------------------------------------------------------ C8
\* C8: handling a remote call-ended emits nothing, and the call-ended messages
\* emitted in the whole system are exactly those of the endCall clicks.
C8_NoEcho ==
  [][\A p \in Peers :
        /\ onCallEnded(p) => emitted' = emitted /\ net'[Other(p)] = net[Other(p)]
        /\ TotalEmitted("call-ended")' # TotalEmitted("call-ended")
             => /\ TotalEmitted("call-ended")' = TotalEmitted("call-ended") + 1
                /\ \E q \in Peers : endCall(q)]_vars

\* A remote call-ended has been handled by p, whose peer clicked End Call once,
\* and nothing is in flight.
C8_Witness ==
  \E p \in Peers :
     /\ ended[p] /\ emitted[p]["call-ended"] = 0
     /\ emitted[Other(p)]["call-ended"] = 1
     /\ Quiescent

\* ------------------------------------------------------------ C10
\* Between the two states only the flag `field` of stream s of p differs, flipped.
OnlyFlagFlipped(p, s, field) ==
  /\ streams'[p][s][field] = ~streams[p][s][field]
  /\ streams' = [streams EXCEPT ![p][s][field] = ~@]

\* Nothing but `streams` and the click budget changes.
MuteFrame ==
  /\ engines' = engines /\ pcRef' = pcRef /\ localStreamRef' = localStreamRef
  /\ localVideoSrc' = localVideoSrc /\ tasks' = tasks /\ gumCalls' = gumCalls
  /\ net' = net /\ emitted' = emitted /\ ended' = ended

\* C10: toggleAudio/toggleVideo flips only the `enabled` flag of the held track
\* of its kind (so twice restores it) and changes nothing else: no track is
\* attached or detached, no engine created or closed, no media acquired, no
\* message emitted.
C10_MuteIsLocal ==
  [][\A p \in Peers :
        /\ toggleAudio(p) =>
             /\ MuteFrame
             /\ IF localStreamRef[p] = Null THEN streams' = streams
                ELSE OnlyFlagFlipped(p, localStreamRef[p], "aEnabled")
        /\ toggleVideo(p) =>
             /\ MuteFrame
             /\ IF localStreamRef[p] = Null THEN streams' = streams
                ELSE OnlyFlagFlipped(p, localStreamRef[p], "vEnabled")]_vars

\* The held audio track of a peer with an engine attached is muted, and so is
\* its video track: both toggles have acted on a held stream.
C10_Witness ==
  \E p \in Peers :
     /\ pcRef[p] # Null /\ localStreamRef[p] # Null
     /\ ~streams[p][localStreamRef[p]].aEnabled
     /\ ~streams[p][localStreamRef[p]].vEnabled

\* ------------------------------------------------------------ C2, C3
\* A reconnection attempt of p is in flight: the current engine was created by
\* reconnectCall, is open, and no answer has been applied to it.
InFlight(p) ==
  /\ pcRef[p] # Null
  /\ engines[p][pcRef[p]].origin = "reconnectCall"
  /\ engines[p][pcRef[p]].remote = Null

\* One call was set up by one Start Call click and nobody has ended it.
OneCallUp ==
  /\ \A p \in Peers : ~ended[p] /\ emitted[p]["call-ended"] = 0
  /\ Cardinality({pe \in Peers \X (1..MaxEngines) :
                    /\ pe[2] <= Len(engines[pe[1]])
                    /\ engines[pe[1]][pe[2]].origin = "startCall"}) = 1
  /\ \A p \in Peers : \A i \in 1..Len(tasks[p]) : tasks[p][i].at # "gum"

\* C2: in a call that is up, a `failed` event of the connected current engine
\* starts a reconnection attempt (in flight at once); and once the
\* reconnect-offers and reconnect-answers that followed have all been handled,
\* no attempt is in flight any more and each session holds the descriptions of
\* an open engine of its peer, so that it returns to Connected.
C2_FailedReconnects ==
  [][\A p \in Peers :
        /\ OneCallUp =>
             \A e \in 1..Len(engines[p]) :
                (e = pcRef[p] /\ engines[p][e].conn = "connected" /\ EngineFailed(p, e))
                   => InFlight(p)'
        /\ (OneCallUp /\ Quiescent /\ TotalEmitted("reconnect-offer") > 0)'
             => (~InFlight(p) /\ CanConnect(p))']_vars

\* C3: while a reconnection attempt of p is in flight no disconnected/failed
\* event of any engine of p starts another attempt.
C3_OneAttemptInFlight ==
  [][\A p \in Peers :
        InFlight(p) =>
          ~ \E e \in 1..Len(engines[p]) :
               /\ EngineDisconnected(p, e) \/ EngineFailed(p, e)
               /\ Len(engines'[p]) > Len(engines[p])]_vars
\* ------------------------------------------------------------ C9
\* C9: when stopScreenShare, started by the end of a screen track, completes
\* with an engine attached, that engine sends exactly one video track, the
\* track of the camera stream just acquired, and the screen track is stopped.
C9_ScreenShareRoundTrip ==
  [][\A p \in Peers : \A i \in 1..Len(tasks[p]) :
        (tasks[p][i].fn = "stopScreenShare" /\ pcRef[p] # Null /\ GumResolve(p, i))
          => /\ engines'[p][pcRef[p]].video = Len(streams'[p])
             /\ streams'[p][Len(streams'[p])].source = "camera"
             /\ streams'[p][Len(streams'[p])].vLive
             /\ ~streams'[p][tasks[p][i].from].vLive]_vars
\* ------------------------------------------------------------ C11
\* A track replacement of p: the rest of startScreenShare once getDisplayMedia
\* has resolved, or the rest of stopScreenShare once getUserMedia has.
ReplacesTrack(p) ==
  \E i \in 1..Len(tasks[p]) :
     \/ GdmResolve(p, i)
     \/ tasks[p][i].fn = "stopScreenShare" /\ GumResolve(p, i)

\* C11: every engine has at most one video sender and at most one audio
\* sender in every state a step leads to, and a track replacement (start or
\* stop of a screen share) leaves the number of senders of every engine as it was.
C11_OneTrackPerKind ==
  [][\A p \in Peers :
        /\ \A e \in 1..Len(engines'[p]) :
              engines'[p][e].nVideo <= 1 /\ engines'[p][e].nAudio <= 1
        /\ ReplacesTrack(p) =>
              /\ Len(engines'[p]) = Len(engines[p])
              /\ \A e \in 1..Len(engines[p]) :
                    /\ engines'[p][e].nVideo = engines[p][e].nVideo
                    /\ engines'[p][e].nAudio = engines[p][e].nAudio]_vars

\* A screen share was started and stopped on an attached engine that sends the
\* camera again: both replacements have run.
C11_Witness ==
  \E p \in Peers :
     /\ pcRef[p] # Null
     /\ \E s \in 1..Len(streams[p]) : streams[p][s].source = "screen" /\ ~streams[p][s].vLive
     /\ engines[p][pcRef[p]].video = Len(streams[p])
     /\ streams[p][Len(streams[p])].source = "camera"
     /\ Len(streams[p]) = 3
     /\ engines[p][pcRef[p]].nVideo = 1 /\ engines[p][pcRef[p]].nAudio = 1
\* ------------------------------------------------------------ C12
\* Peer a has clicked Start Call.
Calling(a) ==
  \E i \in 1..Len(tasks[a]) : tasks[a][i].fn = "startCall"

\* The handshake a started is complete: a emitted one offer and no answer, its
\* peer one answer and no offer, the answer is applied to the engine of a that
\* made the offer, which holds the description of the peer's current engine and
\* the other way round, and both engines are connected.
HandshakeDone(a) ==
  LET b == Other(a) IN
  /\ emitted[a]["offer"] = 1 /\ emitted[a]["answer"] = 0
  /\ emitted[b]["answer"] = 1 /\ emitted[b]["offer"] = 0
  /\ pcRef[a] # Null /\ pcRef[b] # Null
  /\ engines[a][pcRef[a]].origin = "startCall"
  /\ engines[a][pcRef[a]].local /\ engines[a][pcRef[a]].remote = pcRef[b]
  /\ engines[b][pcRef[b]].origin = "offer"
  /\ engines[b][pcRef[b]].local /\ engines[b][pcRef[b]].remote = pcRef[a]
  /\ engines[a][pcRef[a]].conn = "connected"
  /\ engines[b][pcRef[b]].conn = "connected"

\* C12: with one Start Call click and no other trigger, never more than one
\* offer and one answer are emitted, and the click leads to the completed
\* handshake: one offer by the caller, one answer by its peer, the answer
\* applied to the engine that made the offer, both peers Connected.
C12_HandshakeCompletes ==
  /\ [](TotalEmitted("offer") <= 1 /\ TotalEmitted("answer") <= 1)
  /\ \A a \in Peers : Calling(a) ~> HandshakeDone(a)

\* Peer 2 called, the handshake is complete and nothing is pending.
C12_Witness == HandshakeDone(2) /\ Quiescent
\* ------------------------------------------------------------ C13
\* C13: the handler of a remote call-ended leaves the engine it found closed and
\* no longer referenced, the tracks of the stream the session held stopped and
\* the local stream reference cleared, as endCall does.
C13_RemoteEndReleases ==
  [][\A p \in Peers :
        onCallEnded(p) =>
          /\ pcRef'[p] = Null
          /\ pcRef[p] # Null => engines'[p][pcRef[p]].closed
          /\ localStreamRef'[p] = Null
          /\ localStreamRef[p] # Null =>
                /\ ~streams'[p][localStreamRef[p]].vLive
                /\ ~streams'[p][localStreamRef[p]].aLive]_vars
\* ------------------------------------------------------------ C14
\* Task i of p is the pending setRemoteDescription of an answer handler.
AnswerTask(p, i) ==
  tasks[p][i].fn \in {"answer", "reconnect-answer"} /\ tasks[p][i].at = "setRemote"

\* The answer of task i answers the offer of the engine it is applied to, and
\* that engine is open with its offer outstanding.
AnswersOwnOffer(p, i) ==
  LET t == tasks[p][i] IN
  /\ ~engines[p][t.pc].closed
  /\ engines[p][t.pc].sig = "have-local-offer"
  /\ engines[Other(p)][t.from].remote = t.pc

\* C14: when an answer handler receives an answer nothing but its pending call
\* changes, and when that call settles the answer is applied only to an open
\* engine whose own offer it answers; any other answer changes no engine.
C14_StaleAnswerDiscarded ==
  [][\A p \in Peers :
        /\ (onAnswer(p) \/ onReconnectAnswer(p)) =>
              engines' = engines /\ pcRef' = pcRef /\ emitted' = emitted
        /\ \A i \in 1..Len(tasks[p]) :
              (AnswerTask(p, i) /\ SetRemoteResolve(p, i) /\ ~AnswersOwnOffer(p, i))
                 => engines' = engines]_vars
\* ------------------------------------------------------------ C15
\* C15: a remote candidate handled by a session that has not ended is kept
\* (a pending addIceCandidate, or a buffer entry, comes into being), and a
\* candidate whose addIceCandidate settles on an open engine is added to it.
C15_NoCandidateLost ==
  [][\A p \in Peers :
        /\ (onIceCandidate(p) /\ ~ended[p]) => Len(tasks'[p]) = Len(tasks[p]) + 1
        /\ \A i \in 1..Len(tasks[p]) :
              (AddIceResolve(p, i) /\ ~engines[p][tasks[p][i].pc].closed)
                 => engines'[p][tasks[p][i].pc].cands = engines[p][tasks[p][i].pc].cands + 1]_vars
\* ------------------------------------------------------------ C16
\* Task i of p belongs to startCall, to the offer handler or to reconnectCall.
Transition(p, i) == tasks[p][i].fn \in {"startCall", "offer", "reconnectCall"}

\* C16: when the awaited step of startCall, of the offer handler or of a
\* reconnection attempt fails, nothing is emitted, and the engine the function
\* had built, if any, is closed and is no longer the session's engine.
C16_FailureRollsBack ==
  [][\A p \in Peers : \A i \in 1..Len(tasks[p]) :
        (Transition(p, i) /\ (DeviceRejects(p, i) \/ EngineCallRejects(p, i)))
          => /\ emitted' = emitted /\ net' = net
             /\ tasks[p][i].pc # Null =>
                   /\ engines'[p][tasks[p][i].pc].closed
                   /\ pcRef'[p] # tasks[p][i].pc]_vars
\* ------------------------------------------------------------ C17
\* Task i of p is a negotiation step (of startCall, reconnectCall, the offer or
\* the reconnect-offer handler) whose engine is closed or is no longer the
\* session's current engine.
Superseded(p, i) ==
  /\ tasks[p][i].fn \in {"startCall", "reconnectCall", "offer", "reconnect-offer"}
  /\ tasks[p][i].pc # Null
  /\ engines[p][tasks[p][i].pc].closed \/ tasks[p][i].pc # pcRef[p]

\* The awaited engine call of task i settles and the function resumes.
Resumes(p, i) ==
  \/ CreateOfferResolve(p, i)
  \/ CreateAnswerResolve(p, i)
  \/ SetLocalResolve(p, i)
  \/ SetRemoteResolve(p, i)

\* C17: a negotiation step that resumes for a closed or replaced engine emits
\* nothing and leaves the session's references alone, so that a description is
\* only ever emitted for the session's current engine.
C17_StaleStepIsNoOp ==
  [][\A p \in Peers : \A i \in 1..Len(tasks[p]) :
        (Superseded(p, i) /\ Resumes(p, i))
          => /\ emitted' = emitted /\ net' = net
             /\ pcRef' = pcRef /\ localStreamRef' = localStreamRef]_vars
\* ------------------------------------------------------------ C18
\* C18: the reconnect-offer handler closes the engine it finds and puts in its
\* place a new one that sends the local audio and video track, emitting
\* nothing yet; and when the handler's setLocalDescription settles the only
\* message it may emit is one reconnect-answer.
C18_ReconnectOfferMirrorsOffer ==
  [][\A p \in Peers :
        /\ onReconnectOffer(p) =>
              /\ pcRef[p] # Null => engines'[p][pcRef[p]].closed
              /\ pcRef'[p] = Len(engines[p]) + 1
              /\ engines'[p][pcRef'[p]].nVideo = 1
              /\ engines'[p][pcRef'[p]].nAudio = 1
              /\ emitted' = emitted
        /\ \A i \in 1..Len(tasks[p]) :
              (tasks[p][i].fn = "reconnect-offer" /\ SetLocalResolve(p, i))
                 => \/ emitted' = emitted
                    \/ emitted' = [emitted EXCEPT ![p]["reconnect-answer"] = @ + 1]]_vars
\* ------------------------------------------------------------ C19
\* No screen share of p is under way: no screen track is live and neither
\* startScreenShare nor stopScreenShare is suspended.
NoShareActive(p) ==
  /\ \A s \in 1..Len(streams[p]) : streams[p][s].source = "screen" => ~streams[p][s].vLive
  /\ \A i \in 1..Len(tasks[p]) :
        tasks[p][i].fn \notin {"startScreenShare", "stopScreenShare"}

\* C19: with an engine attached and no screen share under way, the audio and
\* the video sender of the engine carry the tracks of the stream the session
\* holds (the tracks toggleAudio / toggleVideo flip).
C19_HeldTrackIsSentTrack ==
  \A p \in Peers :
     (pcRef[p] # Null /\ NoShareActive(p))
       => /\ engines[p][pcRef[p]].video = localStreamRef[p]
          /\ engines[p][pcRef[p]].audio = localStreamRef[p]
\* ------------------------------------------------------------ C20
\* A screen share of p is active: the local preview shows a live screen track
\* and neither startScreenShare nor stopScreenShare is suspended.
ShareActive(p) ==
  /\ localVideoSrc[p] # Null
  /\ streams[p][localVideoSrc[p]].source = "screen"
  /\ streams[p][localVideoSrc[p]].vLive
  /\ \A i \in 1..Len(tasks[p]) :
        tasks[p][i].fn \notin {"startScreenShare", "stopScreenShare"}

\* Start Call was clicked at most once at p: at most one engine of p was
\* created by startCall.
CalledOnce(p) ==
  Cardinality({e \in 1..Len(engines[p]) : engines[p][e].origin = "startCall"}) <= 1

\* C20: while a screen share is active in a session that called at most once,
\* the video sender of the current engine carries the screen track shown in
\* the preview, also when that engine was created by reconnectCall, by the
\* reconnect-offer handler or by the offer handler.
C20_ShareSurvivesReplacement ==
  \A p \in Peers :
     (ShareActive(p) /\ pcRef[p] # Null /\ CalledOnce(p))
       => engines[p][pcRef[p]].video = localVideoSrc[p]
====
